---- MODULE Spec2Model ----
(***************************************************************************)
(* Model of the citation scanner of readera_pdf_highlighter.py:            *)
(* find_in (the per-page matcher) and the page-advance loop of             *)
(* add_citations_to_pdf.                                                   *)
(*                                                                         *)
(* Strings are sequences of one-character strings.  Python indices are     *)
(* 0-based: text[i] in the source is text[i + 1] here, and page number p   *)
(* of the source is pages[p + 1].                                          *)
(*                                                                         *)
(* A page is represented by its normalized stream, the first component of  *)
(* get_textpage_words(page_index).  The second component, char_coords, has *)
(* one rectangle per character of the stream; the rectangle of character i *)
(* is represented by the index i itself, so a highlight records which      *)
(* characters of the stream its two corner points were taken from.         *)
(*                                                                         *)
(* match_start and match_end are assigned at the head of every iteration   *)
(* of the while loop before they are read, so they are not state: each     *)
(* action takes them from find_in.  The text annotation of a note is added *)
(* beside each highlight annotation (lines 179-182) and is not recorded    *)
(* on its own.  The citation list is read one part at a time: BeginPart    *)
(* draws the next part, Finish is the end of the list.                     *)
(***************************************************************************)
EXTENDS Integers, Sequences, FiniteSets, TLC

\* ---------------------------------------------------------------- bounds
\* Pages of the document, characters of a page's stream, characters of a
\* part's normalized text, parts in the citation list.
MaxPages == 2
MaxPageLen == 2
MaxPartLen == 3
MaxParts == 2

Alphabet == {"a", "b"}

Strs(n) == UNION {[1..k -> Alphabet] : k \in 0..n}

PageSeqs == UNION {[1..k -> Strs(MaxPageLen)] : k \in 0..MaxPages}

\* ---------------------------------------------------------------- Python values
\* None where the source returns it for an index (match_start, match_end).
None == -2

\* None where the source returns it for the remainder.
NoRemainder == <<"None">>

\* Python truth value of a remainder: None and "" are false.
Truthy(r) == r # NoRemainder /\ r # <<>>

\* text[lo:hi] for 0 <= lo, 0 <= hi (Python slice, clipped to the string).
Slice(text, lo, hi) ==
    LET h == IF hi > Len(text) THEN Len(text) ELSE hi
    IN  IF lo >= h THEN <<>> ELSE SubSeq(text, lo + 1, h)

\* text.endswith(s)
EndsWith(text, s) ==
    /\ Len(s) <= Len(text)
    /\ Slice(text, Len(text) - Len(s), Len(text)) = s

\* text.index(span), searching from offset i upwards; None models ValueError.
RECURSIVE IndexFrom(_, _, _)
IndexFrom(text, span, i) ==
    IF i + Len(span) > Len(text) THEN None
    ELSE IF Slice(text, i, i + Len(span)) = span THEN i
    ELSE IndexFrom(text, span, i + 1)

\* Mutant of SuffixLoop: the candidates are tried shortest first (span[:i]).
RECURSIVE SuffixLoop_ShortestFirst(_, _, _)
SuffixLoop_ShortestFirst(text, span, i) ==
    IF i >= Len(span) THEN <<None, None, span>>
    ELSE LET subspan == Slice(span, 0, i)
         IN  IF EndsWith(text, subspan)
             THEN <<Len(text) - Len(subspan), Len(text) - 1,
                    Slice(span, Len(subspan), Len(span))>>
             ELSE SuffixLoop_ShortestFirst(text, span, i + 1)

\* The loop `for i in range(1, len(span))` of find_in, from iteration i on.
RECURSIVE SuffixLoop(_, _, _)
SuffixLoop(text, span, i) ==
    IF i >= Len(span) THEN <<None, None, span>>
    ELSE LET subspan == Slice(span, 0, Len(span) - i)
         IN  IF EndsWith(text, subspan)
             THEN <<Len(text) - Len(subspan), Len(text) - 1,
                    Slice(span, Len(subspan), Len(span))>>
             ELSE SuffixLoop(text, span, i + 1)

\* find_in(text, span) -> (match_start, match_end, remainder)
find_in(text, span) ==
    LET match_index == IndexFrom(text, span, 0)
    IN  IF match_index # None
        THEN <<match_index, match_index + Len(span) - 1, NoRemainder>>
        ELSE SuffixLoop(text, span, 1)

\* ---------------------------------------------------------------- state
VARIABLES
    pages,                  \* line 133, as the stream of each page (lines 139-147)
    page_index,             \* line 135: the scan cursor
    page_index_last_found,  \* line 135: page on which the last FOUND part ended
    num_found,              \* line 136
    num_not_found,          \* line 136
    num_parts,              \* lines 149-151: parts taken from the citation list so far
    citation_string,        \* line 152: normalized text of the part being scanned
    remainder,              \* lines 153, 159, 161, 169
    highlights,             \* lines 154, 162, 170, 173: spans accumulated for the part
    annots,                 \* line 180: highlight annotations added for this part
    status,                 \* lines 184, 187-188: SEARCHING, FOUND or NOT_FOUND
    start_index,            \* line 155: page_index when this part's scan began
    retried,                \* line 171: the `continue` was taken on this page
    call,                   \* lines 117-129: one call of find_in, arguments and result
    pc                      \* part (151) | scan (155) | done (191) | error (173)
                            \* | find | returned (117-129)

vars == <<pages, page_index, page_index_last_found, num_found, num_not_found,
          num_parts, citation_string, remainder, highlights, annots, status,
          start_index, retried, call, pc>>

\* pages[page_index] of the source.
Page(i) == pages[i + 1]

\* len(pages)
NumPages == Len(pages)

\* No call of find_in is being looked at.
NoCall == [text |-> <<>>, span |-> <<>>, result |-> <<>>]

Init ==
    /\ pages \in PageSeqs
    /\ page_index = 0
    /\ page_index_last_found = 0
    /\ num_found = 0
    /\ num_not_found = 0
    /\ num_parts = 0
    /\ citation_string = <<>>
    /\ remainder = <<>>
    /\ highlights = <<>>
    /\ annots = <<>>
    /\ status = "SEARCHING"
    /\ start_index = 0
    /\ retried = FALSE
    /\ call = NoCall
    /\ pc = "part"

\* char_coords[i] succeeds for -n <= i < n on a list of n entries and raises
\* IndexError otherwise.
CoordOK(i, n) == i >= 0 - n /\ i <= n - 1

\* The entry char_coords[i] selects: Python counts a negative i from the end.
CoordAt(i, n) == IF i < 0 THEN n + i ELSE i

\* The highlight appended at lines 173-174.
Highlight(p, ms, me) ==
    [page |-> p,
     start |-> CoordAt(ms, Len(Page(p))),
     stop |-> CoordAt(me, Len(Page(p)))]

\* ---------------------------------------------------------------- actions
\* for citation_part in citation_parts: the next part of the citation list is
\* taken, normalized, and its scan is set up (lines 149-154).
BeginPart ==
    /\ pc = "part"
    /\ num_parts < MaxParts
    /\ \E s \in Strs(MaxPartLen) :
         /\ citation_string' = s
         /\ remainder' = s
    /\ highlights' = <<>>
    /\ annots' = <<>>
    /\ status' = "SEARCHING"
    /\ start_index' = page_index
    /\ retried' = FALSE
    /\ num_parts' = num_parts + 1
    /\ pc' = "scan"
    /\ UNCHANGED <<pages, page_index, page_index_last_found, num_found,
                   num_not_found, call>>

\* The citation list is exhausted: saveIncr and the report (lines 191-202).
Finish ==
    /\ pc = "part"
    /\ pc' = "done"
    /\ UNCHANGED <<pages, page_index, page_index_last_found, num_found,
                   num_not_found, num_parts, citation_string, remainder,
                   highlights, annots, status, start_index, retried, call>>

\* Mutant of AdvanceOrEmit: the cursor also moves on after a success.
AdvanceOrEmit_SkipsPage(rem, hl) ==
    IF Truthy(rem)
    THEN /\ page_index' = page_index + 1
         /\ pc' = "scan"
         /\ retried' = FALSE
         /\ UNCHANGED <<page_index_last_found, num_found, annots, status>>
    ELSE /\ annots' = hl
         /\ page_index_last_found' = page_index
         /\ page_index' = page_index + 1
         /\ num_found' = num_found + 1
         /\ status' = "FOUND"
         /\ pc' = "part"
         /\ UNCHANGED retried

\* Lines 176-185: advance to the next page, or emit the highlights and stop.
AdvanceOrEmit(rem, hl) ==
    IF Truthy(rem)
    THEN /\ page_index' = page_index + 1
         /\ pc' = "scan"
         /\ retried' = FALSE
         /\ UNCHANGED <<page_index_last_found, num_found, annots, status>>
    ELSE /\ annots' = hl
         /\ page_index_last_found' = page_index
         /\ num_found' = num_found + 1
         /\ status' = "FOUND"
         /\ pc' = "part"
         /\ UNCHANGED <<page_index, retried>>

\* One iteration of the while loop in which find_in finds nothing
\* (lines 159-162, then 176-185).
NoMatch ==
    /\ pc = "scan"
    /\ page_index < NumPages
    /\ LET r == find_in(Page(page_index), remainder)
       IN  /\ r[1] = None
           /\ remainder' = citation_string
           /\ highlights' = <<>>
           /\ AdvanceOrEmit(citation_string, <<>>)
    /\ UNCHANGED <<pages, num_not_found, num_parts, citation_string, start_index,
                   call>>

\* Mutant of FalseContinuation: the spans of the previous page are kept.
FalseContinuation_KeepsHighlights ==
    /\ pc = "scan"
    /\ page_index < NumPages
    /\ LET r == find_in(Page(page_index), remainder)
       IN  /\ r[1] # None
           /\ Len(highlights) > 0 /\ r[1] > 0
    /\ remainder' = citation_string
    /\ retried' = TRUE
    /\ pc' = "scan"
    /\ UNCHANGED <<pages, page_index, page_index_last_found, num_found,
                   num_not_found, num_parts, citation_string, highlights,
                   annots, status, start_index, call>>

\* Mutant of FalseContinuation: the page is left instead of searched again.
FalseContinuation_Advances ==
    /\ pc = "scan"
    /\ page_index < NumPages
    /\ LET r == find_in(Page(page_index), remainder)
       IN  /\ r[1] # None
           /\ Len(highlights) > 0 /\ r[1] > 0
    /\ remainder' = citation_string
    /\ highlights' = <<>>
    /\ page_index' = page_index + 1
    /\ retried' = FALSE
    /\ pc' = "scan"
    /\ UNCHANGED <<pages, page_index_last_found, num_found, num_not_found,
                   num_parts, citation_string, annots, status, start_index,
                   call>>

\* One iteration in which a match that does not start the page follows a
\* partial match of the previous page (lines 164-171): `continue`.
FalseContinuation ==
    /\ pc = "scan"
    /\ page_index < NumPages
    /\ LET r == find_in(Page(page_index), remainder)
       IN  /\ r[1] # None
           /\ Len(highlights) > 0 /\ r[1] > 0
    /\ remainder' = citation_string
    /\ highlights' = <<>>
    /\ retried' = TRUE
    /\ pc' = "scan"
    /\ UNCHANGED <<pages, page_index, page_index_last_found, num_found,
                   num_not_found, num_parts, citation_string, annots, status,
                   start_index, call>>

\* One iteration in which the match is recorded (lines 172-174, then 176-185).
Record ==
    /\ pc = "scan"
    /\ page_index < NumPages
    /\ LET r == find_in(Page(page_index), remainder)
           n == Len(Page(page_index))
       IN  /\ r[1] # None
           /\ ~(Len(highlights) > 0 /\ r[1] > 0)
           /\ CoordOK(r[1], n) /\ CoordOK(r[2], n)
           /\ remainder' = r[3]
           /\ highlights' = Append(highlights, Highlight(page_index, r[1], r[2]))
           /\ AdvanceOrEmit(r[3], highlights')
    /\ UNCHANGED <<pages, num_not_found, num_parts, citation_string, start_index,
                   call>>

\* The same iteration when char_coords[match_start] or char_coords[match_end]
\* raises IndexError (lines 173-174): nothing catches it, the run is aborted.
IndexError ==
    /\ pc = "scan"
    /\ page_index < NumPages
    /\ LET r == find_in(Page(page_index), remainder)
           n == Len(Page(page_index))
       IN  /\ r[1] # None
           /\ ~(Len(highlights) > 0 /\ r[1] > 0)
           /\ ~(CoordOK(r[1], n) /\ CoordOK(r[2], n))
           /\ remainder' = r[3]
    /\ pc' = "error"
    /\ UNCHANGED <<pages, page_index, page_index_last_found, num_found,
                   num_not_found, num_parts, citation_string, highlights,
                   annots, status, start_index, retried, call>>

\* Mutant of Exhaust: the cursor is reset to the first page.
Exhaust_ResetsToZero ==
    /\ pc = "scan"
    /\ ~(page_index < NumPages)
    /\ num_not_found' = num_not_found + 1
    /\ page_index' = 0
    /\ status' = "NOT_FOUND"
    /\ pc' = "part"
    /\ UNCHANGED <<pages, page_index_last_found, num_found, num_parts,
                   citation_string, remainder, highlights, annots,
                   start_index, retried, call>>

\* Mutant of Exhaust: the cursor is left past the last page.
Exhaust_NoReset ==
    /\ pc = "scan"
    /\ ~(page_index < NumPages)
    /\ num_not_found' = num_not_found + 1
    /\ status' = "NOT_FOUND"
    /\ pc' = "part"
    /\ UNCHANGED <<pages, page_index, page_index_last_found, num_found,
                   num_parts, citation_string, remainder, highlights, annots,
                   start_index, retried, call>>

\* The while loop ends without break: the else clause (lines 186-189).
Exhaust ==
    /\ pc = "scan"
    /\ ~(page_index < NumPages)
    /\ num_not_found' = num_not_found + 1
    /\ page_index' = page_index_last_found
    /\ status' = "NOT_FOUND"
    /\ pc' = "part"
    /\ UNCHANGED <<pages, page_index_last_found, num_found, num_parts,
                   citation_string, remainder, highlights, annots,
                   start_index, retried, call>>

Next ==
    \/ BeginPart
    \/ Finish
    \/ NoMatch
    \/ FalseContinuation
    \/ Record
    \/ IndexError
    \/ Exhaust

Spec == Init /\ [][Next]_vars

\* ---------------------------------------------------------------- find_in alone
\* find_in called once on a haystack and a query drawn from the bounded sets.
FindInit ==
    /\ pages = <<>>
    /\ page_index = 0
    /\ page_index_last_found = 0
    /\ num_found = 0
    /\ num_not_found = 0
    /\ num_parts = 0
    /\ citation_string = <<>>
    /\ remainder = <<>>
    /\ highlights = <<>>
    /\ annots = <<>>
    /\ status = "SEARCHING"
    /\ start_index = 0
    /\ retried = FALSE
    /\ \E t \in Strs(MaxPageLen), s \in Strs(MaxPartLen) :
         call = [text |-> t, span |-> s, result |-> <<>>]
    /\ pc = "find"

FindCall ==
    /\ pc = "find"
    /\ call' = [call EXCEPT !.result = find_in(call.text, call.span)]
    /\ pc' = "returned"
    /\ UNCHANGED <<pages, page_index, page_index_last_found, num_found,
                   num_not_found, num_parts, citation_string, remainder,
                   highlights, annots, status, start_index, retried>>

FindNext == FindCall

FindSpec == FindInit /\ [][FindNext]_vars

\* ---------------------------------------------------------------- vocabulary of the claims
\* q occurs in t at 0-based offset i.
OccursAt(q, t, i) ==
    /\ i >= 0
    /\ i + Len(q) <= Len(t)
    /\ \A j \in 1..Len(q) : t[i + j] = q[j]

\* q is a contiguous substring of t.
Occurs(q, t) == \E i \in 0..Len(t) : OccursAt(q, t, i)

\* The first k characters of q, and the rest.
Prefix(q, k) == [j \in 1..k |-> q[j]]
Suffix(q, k) == [j \in 1..(Len(q) - k) |-> q[k + j]]

\* t ends with q; t begins with q.
IsSuffixOf(q, t) == OccursAt(q, t, Len(t) - Len(q))
IsPrefixOf(q, t) == OccursAt(q, t, 0)

\* The page numbers of the document.
PageNumbers == 0..(NumPages - 1)

\* The characters start..stop (0-based, inclusive) of page p.
Range(p, start, stop) ==
    [j \in 1..(stop - start + 1) |-> Page(p)[start + j]]

RECURSIVE Concat(_)
Concat(ss) == IF ss = <<>> THEN <<>> ELSE Head(ss) \o Concat(Tail(ss))

\* q splits at the boundary between pages p and p + 1.
SplitsAt(q, p) ==
    /\ p \in PageNumbers
    /\ p + 1 \in PageNumbers
    /\ \E k \in 1..(Len(q) - 1) :
         /\ IsSuffixOf(Prefix(q, k), Page(p))
         /\ IsPrefixOf(Suffix(q, k), Page(p + 1))

\* ---------------------------------------------------------------- C1
\* C1 (as claimed): a part whose non-empty text splits across the boundary of
\* pages p and p + 1, with the cursor at or before p when its scan begins, never
\* ends NOT_FOUND.
C1_PageSplitIsFound ==
    (status = "NOT_FOUND" /\ citation_string # <<>>)
        => \A p \in PageNumbers : p >= start_index => ~SplitsAt(citation_string, p)

\* ---------------------------------------------------------------- C2
\* The scanner holds a span of the previous page and the match of the remainder
\* on this page starts after offset 0.
FalseContinuationCase ==
    /\ pc = "scan"
    /\ page_index < NumPages
    /\ Len(highlights) > 0
    /\ find_in(Page(page_index), remainder)[1] > 0

\* The scanner is about to search this page for the whole part.
FreshOnPage ==
    /\ pc = "scan"
    /\ page_index < NumPages
    /\ highlights = <<>>
    /\ remainder = citation_string

\* C2: in the false-continuation case the step discards the accumulated spans,
\* resets the remainder to the whole part and stays on the page; and a step that
\* searches a page for the whole non-empty part, the part occurring in it, marks
\* the part FOUND with exactly one span, on that page.
C2_FalseContinuationGuard ==
    [][ /\ FalseContinuationCase =>
             /\ highlights' = <<>>
             /\ remainder' = citation_string
             /\ page_index' = page_index
             /\ pc' = "scan"
             /\ status' = "SEARCHING"
             /\ annots' = <<>>
        /\ (FreshOnPage /\ citation_string # <<>>
                /\ Occurs(citation_string, Page(page_index))) =>
             /\ status' = "FOUND"
             /\ Len(annots') = 1
             /\ annots'[1].page = page_index
             /\ page_index' = page_index
      ]_vars

\* A part FOUND on a page after the false continuation was discarded there.
C2_Witness ==
    /\ status = "FOUND"
    /\ retried
    /\ Len(annots) = 1
    /\ annots[1].page = page_index
    /\ Occurs(citation_string, Page(page_index))

\* ---------------------------------------------------------------- C3
\* C3 (as claimed): whatever the processing order, a part whose text occurs
\* within some page never ends NOT_FOUND.
C3_OrderIndependent ==
    status = "NOT_FOUND"
        => \A p \in PageNumbers : ~Occurs(citation_string, Page(p))

\* C3 (amended): a part whose text occurs within some page ends NOT_FOUND only
\* when every page containing it lies before the page on which an earlier part
\* was FOUND.
C3_MissedOnlyBehindLastSuccess ==
    status = "NOT_FOUND"
        => \A p \in PageNumbers :
             Occurs(citation_string, Page(p))
                 => (p < page_index_last_found /\ num_found > 0)

\* A part that occurs in the document and ended NOT_FOUND.
C3_Witness ==
    /\ status = "NOT_FOUND"
    /\ citation_string # <<>>
    /\ \E p \in PageNumbers : Occurs(citation_string, Page(p))

\* ---------------------------------------------------------------- C4
\* C4: the cursor is never below page_index_last_found; a step that lowers it is
\* the reset after NOT_FOUND and puts it on page_index_last_found; any other
\* step leaves it or adds one.
C4_MonotonicCursor ==
    [][ /\ page_index >= page_index_last_found
        /\ page_index' >= page_index_last_found'
        /\ page_index' < page_index =>
             /\ status = "SEARCHING"
             /\ status' = "NOT_FOUND"
             /\ page_index' = page_index_last_found
        /\ page_index' >= page_index =>
             (page_index' = page_index \/ page_index' = page_index + 1)
      ]_vars

\* The reset has moved the cursor back to a last success that is not page 0.
C4_Witness ==
    /\ status = "NOT_FOUND"
    /\ page_index = page_index_last_found
    /\ page_index_last_found > 0
    /\ page_index < NumPages

\* ---------------------------------------------------------------- C5
\* C5: the step taken when the scan has run past the last page marks the part
\* NOT_FOUND, adds one to num_not_found, leaves num_found and
\* page_index_last_found alone, emits nothing and puts the cursor on
\* page_index_last_found; the next part's scan begins with the cursor there.
C5_Exhaustion ==
    [][ /\ (pc = "scan" /\ page_index >= NumPages) =>
             /\ status' = "NOT_FOUND"
             /\ num_not_found' = num_not_found + 1
             /\ num_found' = num_found
             /\ page_index_last_found' = page_index_last_found
             /\ annots = <<>> /\ annots' = <<>>
             /\ page_index' = page_index_last_found
        /\ (status = "NOT_FOUND" /\ pc' = "scan") =>
             /\ page_index' = page_index_last_found'
             /\ start_index' = page_index_last_found'
             /\ page_index_last_found' = page_index_last_found
      ]_vars

\* A part ended NOT_FOUND after an earlier success beyond page 0.
C5_Witness ==
    /\ status = "NOT_FOUND"
    /\ pc = "part"
    /\ num_not_found > 0
    /\ num_found > 0
    /\ page_index_last_found > 0

\* ---------------------------------------------------------------- C6
\* C6 (as claimed): a page visit with an empty part or an empty page records no
\* span, does not mark the part FOUND and raises no error.
C6_EmptyInputIsNonMatch ==
    [][ (/\ pc = "scan"
         /\ page_index < NumPages
         /\ (citation_string = <<>> \/ Page(page_index) = <<>>)) =>
             /\ highlights' = <<>>
             /\ annots' = <<>>
             /\ status' # "FOUND"
             /\ pc' # "error"
      ]_vars

\* ---------------------------------------------------------------- C7
\* C7 (as claimed): no run is aborted, every part taken from the list has ended
\* FOUND or NOT_FOUND and been counted once whenever the scanner is between
\* parts, and the same-page retry leaves nothing to retry again.
C7_EveryRunTerminates ==
    /\ pc # "error"
    /\ pc \in {"part", "done"} =>
         /\ num_found + num_not_found = num_parts
         /\ (num_parts > 0 => status \in {"FOUND", "NOT_FOUND"})
    /\ (pc = "scan" /\ retried) => ~FalseContinuationCase

\* ---------------------------------------------------------------- C8
\* The proper non-empty prefixes of q that t ends with, by length.
SplitLengths(t, q) ==
    {k \in 1..(Len(q) - 1) : IsSuffixOf(Prefix(q, k), t)}

\* C8: for a non-empty query find_in returns (1) the leftmost occurrence and no
\* remainder when the query occurs in the haystack; (2) otherwise, when a
\* non-empty proper prefix of the query ends the haystack, the longest such
\* prefix at the end of the haystack and the rest of the query as remainder;
\* (3) otherwise (None, None, query).
C8_FindInThreeCases ==
    (pc = "returned" /\ call.span # <<>>) =>
        LET t == call.text
            q == call.span
            start == call.result[1]
            end == call.result[2]
            rem == call.result[3]
        IN  IF Occurs(q, t)
            THEN /\ OccursAt(q, t, start)
                 /\ \A i \in 0..(start - 1) : ~OccursAt(q, t, i)
                 /\ end - start + 1 = Len(q)
                 /\ rem = NoRemainder
            ELSE IF SplitLengths(t, q) # {}
            THEN /\ \A k \in SplitLengths(t, q) : k <= end - start + 1
                 /\ end - start + 1 \in SplitLengths(t, q)
                 /\ end = Len(t) - 1
                 /\ rem # NoRemainder /\ rem # <<>>
                 /\ [j \in 1..(end - start + 1) |-> t[start + j]] \o rem = q
            ELSE call.result = <<None, None, q>>

\* find_in has returned a partial match where two prefixes of the query end the
\* haystack.
C8_Witness ==
    /\ pc = "returned"
    /\ call.span # <<>>
    /\ ~Occurs(call.span, call.text)
    /\ Cardinality(SplitLengths(call.text, call.span)) >= 2
    /\ call.result[3] # NoRemainder

\* ---------------------------------------------------------------- C9
\* C9: a part whose non-empty text occurs within a page at or after the cursor
\* position at which its scan began never ends NOT_FOUND.
C9_SinglePageComplete ==
    (status = "NOT_FOUND" /\ citation_string # <<>>)
        => \A p \in PageNumbers :
             p >= start_index => ~Occurs(citation_string, Page(p))

\* A part FOUND across two pages, by a carried-over partial match, on a page
\* that also contains it whole.
C9_Witness ==
    /\ status = "FOUND"
    /\ citation_string # <<>>
    /\ Len(annots) = 2
    /\ start_index < page_index
    /\ Occurs(citation_string, Page(page_index))

\* ---------------------------------------------------------------- C10
\* C10 (as claimed): the spans of a FOUND part lie on consecutive pages ending
\* on page_index_last_found, each but the last ends its page, each but the first
\* starts its page, and the ranges they cover spell the part.
C10_FoundIsSound ==
    status = "FOUND" =>
        /\ Len(annots) > 0
        /\ annots[Len(annots)].page = page_index_last_found
        /\ \A j \in 1..(Len(annots) - 1) :
             /\ annots[j + 1].page = annots[j].page + 1
             /\ annots[j].stop = Len(Page(annots[j].page)) - 1
             /\ annots[j + 1].start = 0
        /\ Concat([j \in 1..Len(annots) |->
                     Range(annots[j].page, annots[j].start, annots[j].stop)])
             = citation_string

====
